---- MODULE Spec2Model ----
(***************************************************************************)
(* A model of anki-smart-deck:                                             *)
(*   - the HTTP session manager and retry middleware of                    *)
(*     ankinote/utils/httpcli.py (SpecSession, SpecRetry);                 *)
(*   - the card generator of anki_smart_deck/_card_gen.py together with    *)
(*     the AnkiConnect operations it calls (SpecGen, SpecBatch);           *)
(*   - the three AnkiConnect clients' handling of the bridge's answer      *)
(*     (SpecInvoke);                                                       *)
(*   - the voice cache of the speech client of services/tts.py (SpecTts);  *)
(*   - the search query of the lookup of an existing note (SpecQuery).     *)
(* All coroutines run on one asyncio event loop and the callers in the     *)
(* repository (cli.py, examples/) await them one after the other, so each  *)
(* coroutine runs to its next await before anything else happens.          *)
(***************************************************************************)
EXTENDS Integers, Sequences, FiniteSets, TLC

VARIABLES
    \* ---- ankinote/utils/httpcli.py: module state and its callers' view
    _session,       \* the module global _session: None or a session id
    closed,         \* the ClientSession objects whose .closed is True
    created,        \* number of ClientSession objects constructed so far
    history,        \* the calls made so far, each with what it returned
    \* ---- ankinote/utils/httpcli.py: one run of retry_middleware
    rpc,            \* where the coroutine is: call, sleep, returned, raised
    req,            \* the request passed to retry_middleware
    attempt,        \* the loop variable of "for attempt in range(max_retries)"
    handler_log,    \* what each handler(req) invocation produced, in order
    sleeps,         \* the durations passed to asyncio.sleep, in order
    r_result,       \* the response returned or the exception raised
    \* ---- anki_smart_deck/_card_gen.py: generate_cards_batch and its callee
    deck,           \* the notes the AnkiConnect bridge holds, oldest first
    words,          \* argument words of generate_cards_batch
    tags,           \* argument tags
    force_new,      \* argument force_new
    include_images, \* argument include_images
    idx,            \* position of the batch loop in words
    results,        \* the dict results of generate_cards_batch
    outcomes,       \* what each generate_card call returned or raised
    gpc,            \* where generate_card is
    card_data,      \* ai_response[0]
    existing_note_id,
    us_audio,       \* "US Audio": the sound tag, or "" for none
    uk_audio,
    examples_formatted, \* what _format_examples returned
    images_html,    \* the image tags collected, joined by " " in the code
    fields,         \* the dict fields
    all_tags,       \* the list all_tags
    calls,          \* the service and bridge calls of this generate_card run
    ret,            \* what this generate_card run returned or raised
    faults,         \* failed bridge and download calls of this run
    \* ---- the AnkiConnect clients: one _invoke / invoke call
    ipc,            \* where the call is: post, retry_post, check, returned, raised
    i_client,       \* which client's method runs
    i_action,       \* the action posted
    i_response,     \* the JSON body the bridge answers with
    i_posts,        \* number of POST requests issued by the call
    i_log,          \* how each of these POST requests ended, in order
    i_out,          \* what the call returned or raised
    \* ---- anki_smart_deck/services/tts.py: one GoogleTTSService instance
    _wavenet_voices_cache,  \* self._wavenet_voices_cache
    tts_log,        \* the calls made on the instance, each with what it did
    \* ---- _card_gen.py: the search query of _find_existing_note
    qpc,            \* "build" before the query is built, "built" after
    q_word,         \* the argument word
    q_query         \* the query string, as its sequence of characters

sessionVars == <<_session, closed, created, history>>
retryVars == <<rpc, req, attempt, handler_log, sleeps, r_result>>
batchVars == <<words, tags, force_new, include_images, idx, results, outcomes>>
runVars == <<gpc, card_data, existing_note_id, us_audio, uk_audio, examples_formatted,
             images_html, fields, all_tags,
             calls, ret, faults>>
genVars == <<deck, batchVars, runVars>>
invokeVars == <<ipc, i_client, i_action, i_response, i_posts, i_log, i_out>>
ttsVars == <<_wavenet_voices_cache, tts_log>>
queryVars == <<qpc, q_word, q_query>>
vars == <<sessionVars, retryVars, genVars, invokeVars, ttsVars, queryVars>>

\* httpcli.py:7  "_session: ClientSession | None = None"; session objects
\* are numbered from 1 in the order they are constructed.
None == 0

Last(s) == s[Len(s)]

(***************************************************************************)
(* Session manager: get_session / close_session                            *)
(***************************************************************************)

\* Bounds of the session model.
MaxSessions == 3
MaxCalls == 5

SessionIds == 1..MaxSessions

\* mutant of NeedsNewSession: a closed session is held on to
NeedsNewSessionOnlyNone(s, cl) == s = None

\* mutant of NeedsNewSession: a fresh session on every call
NeedsNewSessionAlways(s, cl) == TRUE

\* httpcli.py:36  "if _session is None or _session.closed"
NeedsNewSession(s, cl) == s = None \/ s \in cl

\* mutant of CloseSessionResult: the open session is left as it is
CloseSessionNoClose(s, cl) == [session |-> s, closed |-> cl]

\* mutant of CloseSessionResult: the session is closed, the global is kept
CloseSessionNoReset(s, cl) ==
    IF s # None /\ s \notin cl
    THEN [session |-> s, closed |-> cl \cup {s}]
    ELSE [session |-> s, closed |-> cl]

\* mutant of CloseSessionResult: the global is cleared whatever was held
CloseSessionAlwaysClear(s, cl) ==
    [session |-> None, closed |-> IF s = None THEN cl ELSE cl \cup {s}]

\* httpcli.py:47-51  the body of close_session on global s, closed set cl
CloseSessionResult(s, cl) ==
    IF s # None /\ s \notin cl
    THEN [session |-> None, closed |-> cl \cup {s}]
    ELSE [session |-> s, closed |-> cl]

SessionInit ==
    /\ _session = None
    /\ closed = {}
    /\ created = 0
    /\ history = <<>>

\* get_session() awaited with or without a running event loop.
get_session(running) ==
    /\ Len(history) < MaxCalls
    /\ IF ~running
       THEN /\ history' = Append(history,
                    [op |-> "get_session", held |-> _session,
                     raised |-> "RuntimeError", ret |-> None,
                     ret_closed |-> FALSE, after |-> _session])
            /\ UNCHANGED <<_session, closed, created>>
       ELSE IF NeedsNewSession(_session, closed)
       THEN /\ created < MaxSessions
            /\ created' = created + 1
            /\ _session' = created + 1
            /\ history' = Append(history,
                    [op |-> "get_session", held |-> _session,
                     raised |-> "", ret |-> created + 1,
                     ret_closed |-> (created + 1) \in closed,
                     after |-> created + 1])
            /\ UNCHANGED closed
       ELSE /\ history' = Append(history,
                    [op |-> "get_session", held |-> _session,
                     raised |-> "", ret |-> _session, ret_closed |-> _session \in closed,
                     after |-> _session])
            /\ UNCHANGED <<_session, closed, created>>
    /\ UNCHANGED <<retryVars, genVars, invokeVars, ttsVars, queryVars>>

\* close_session()
close_session ==
    /\ Len(history) < MaxCalls
    /\ LET r == CloseSessionResult(_session, closed) IN
        /\ _session' = r.session
        /\ closed' = r.closed
        /\ history' = Append(history,
                [op |-> "close_session", held |-> _session,
                 raised |-> "", ret |-> None,
                 ret_closed |-> FALSE, after |-> r.session])
    /\ UNCHANGED <<created, retryVars, genVars, invokeVars, ttsVars, queryVars>>

\* A caller closes a session object it was handed: "await session.close()"
\* (tests/utils/test_httpcli.py:66-67).
session_close(s) ==
    /\ Len(history) < MaxCalls
    /\ s \in 1..created
    /\ closed' = closed \cup {s}
    /\ history' = Append(history,
            [op |-> "session.close", held |-> s,
             raised |-> "", ret |-> None,
             ret_closed |-> FALSE, after |-> _session])
    /\ UNCHANGED <<_session, created, retryVars, genVars, invokeVars, ttsVars, queryVars>>

(***************************************************************************)
(* retry_middleware                                                        *)
(***************************************************************************)

\* httpcli.py:13
max_retries == 3

Requests == {"req1", "req2"}
Responses == {"resp200", "resp500"}
\* Exception classes a handler may raise.
ErrorKinds == {"ClientError", "ServerDisconnectedError", "TimeoutError",
               "ValueError", "RuntimeError"}

\* mutant of Caught: "except Exception"
CaughtAll(kind) == TRUE

\* httpcli.py:17  "except (ClientError, ServerDisconnectedError,
\* asyncio.TimeoutError)"
Caught(kind) ==
    kind \in {"ClientError", "ServerDisconnectedError", "TimeoutError"}

\* mutant of Backoff: the delay doubles one attempt early
BackoffEarly(a) == 1 * (2 ^ (a + 1))

\* httpcli.py:21  "1 * (2**attempt)"
Backoff(a) == 1 * (2 ^ a)

\* mutant of LastAttempt: no attempt is the last
LastAttemptNever(a) == FALSE

\* mutant of LastAttempt: off by one
LastAttemptLate(a) == a = max_retries

\* httpcli.py:18  "if attempt == max_retries - 1"
LastAttempt(a) == a = max_retries - 1

RetryInit ==
    /\ rpc = "call"
    /\ req \in Requests
    /\ attempt = 0
    /\ handler_log = <<>>
    /\ sleeps = <<>>
    /\ r_result = [type |-> "none", val |-> "", n |-> 0]

\* httpcli.py:16  handler(req) returns a response: it is returned.
HandlerReturns(resp) ==
    /\ rpc = "call"
    /\ handler_log' = Append(handler_log,
            [req |-> req, type |-> "response", val |-> resp, n |-> Len(handler_log) + 1])
    /\ r_result' = [type |-> "response", val |-> resp, n |-> Len(handler_log) + 1]
    /\ rpc' = "returned"
    /\ UNCHANGED <<req, attempt, sleeps, sessionVars, genVars, invokeVars, ttsVars, queryVars>>

\* httpcli.py:16-21  handler(req) raises: the except clause and its body.
HandlerRaises(kind) ==
    /\ rpc = "call"
    /\ LET e == [req |-> req, type |-> "error", val |-> kind, n |-> Len(handler_log) + 1] IN
        /\ handler_log' = Append(handler_log, e)
        /\ IF Caught(kind) /\ ~LastAttempt(attempt)
           THEN /\ sleeps' = Append(sleeps, Backoff(attempt))
                /\ rpc' = "sleep"
                /\ UNCHANGED r_result
           ELSE /\ r_result' = [type |-> "error", val |-> kind, n |-> e.n]
                /\ rpc' = "raised"
                /\ UNCHANGED sleeps
    /\ UNCHANGED <<req, attempt, sessionVars, genVars, invokeVars, ttsVars, queryVars>>

\* httpcli.py:14,21-22  asyncio.sleep returns and the loop goes on; past the
\* range the "assert False" is next.
SleepReturns ==
    /\ rpc = "sleep"
    /\ attempt' = attempt + 1
    /\ rpc' = IF attempt + 1 < max_retries THEN "call" ELSE "assert_false"
    /\ UNCHANGED <<req, handler_log, sleeps, r_result, sessionVars, genVars, invokeVars, ttsVars, queryVars>>

(***************************************************************************)
(* Card generator: CardGenerator.generate_card / generate_cards_batch      *)
(***************************************************************************)

\* Bounds of the generator model.
MaxBatch == 2
MaxInitNotes == 1
MaxFaults == 1

Quote == "\""
Backslash == "\\"

\* Words are sequences of characters (lower case, as word.lower() keeps them).
Words == {<<"a", "n", "t">>, <<"o", Quote>>}
WordForms == {"n", "v"}
UserNotes == {"", "mine"}
TagLists == {<<>>, <<"t1">>}

\* _card_gen.py:589-590  the generator's deck and note type
deck_name == "English::AI Words"
model_name == "AI Word (R)"

\* _card_gen.py:440  "num_images=2"
num_images == 2

\* _card_gen.py:445-461  the keys of the dict fields
FieldNames == {"Word", "US Pronunciation", "UK Pronunciation", "US Audio",
               "UK Audio", "Word Form", "Definition EN", "Definition CN",
               "Synonyms", "Examples", "Images", "Notes", "User Notes",
               "Frequency", "Syllabication"}

\* ---- the analysis service's answers (services/ai.py:100-109)

NoCard ==
    [keys |-> {}, word |-> <<>>, word_form |-> "", frequency |-> "",
     examples |-> 0, definitions |-> <<>>]

\* The records of a parsed JSON array: a noun with a CEFR level, one example
\* sentence, one definition as an [english, translated] pair and no "word"
\* key; a verb without a level, examples or definitions whose "word" is the
\* model's own spelling; and a noun whose definitions are the triples
\* [image_friendly, english, translated] the prompt asks for
\* (services/ai.py:22-24, 41-45), one marked true and one false. examples is
\* the number of [english, translated] pairs of the record.
\* Keys the answer lacks (the pronunciations, ...) are read with
\* card_data.get(key, default).
AiCards ==
    {[keys |-> {"word_form", "frequency", "examples", "definitions"},
      word |-> <<>>, word_form |-> "n", frequency |-> "B2", examples |-> 1,
      definitions |-> << <<"en", "cn">> >>],
     [keys |-> {"word", "word_form", "frequency"}, word |-> <<"a", "n", "t">>,
      word_form |-> "v", frequency |-> "", examples |-> 0,
      definitions |-> <<>>],
     [keys |-> {"word_form", "definitions"}, word |-> <<>>,
      word_form |-> "n", frequency |-> "", examples |-> 0,
      definitions |-> << <<"true", "en", "cn">>, <<"false", "en", "cn">> >>]}

\* generate_cards raises, or returns what json.loads gave: null, [], an
\* object, an array of strings, an array of records.
AiOutcomes ==
    {[kind |-> k, cd |-> NoCard] :
        k \in {"raises", "null", "empty_list", "dict", "list_of_str"}}
    \cup {[kind |-> "list", cd |-> c] : c \in AiCards}

\* Python truthiness and isinstance(_, list) of an answer.
Truthy(resp) == resp.kind \notin {"null", "empty_list"}
IsList(resp) == resp.kind \in {"empty_list", "list", "list_of_str"}

\* mutant of InvalidAiResponse: every answer is taken for a list of records
InvalidAiResponseNever(resp) == FALSE

\* _card_gen.py:369
InvalidAiResponse(resp) == ~Truthy(resp) \/ ~IsList(resp) \/ ~Truthy(resp)

\* card_data.get(k, default)
CardGet(cd, k, default) == IF k \in cd.keys THEN cd[k] ELSE default

\* ---- pure helpers of CardGenerator

\* mutant of EscapeQuotes: the word is put in the query as it is
EscapeQuotesNone(w) == w

\* _card_gen.py:297  word.replace('"', '\\"')
RECURSIVE EscapeQuotes(_)
EscapeQuotes(w) ==
    IF w = <<>> THEN <<>>
    ELSE (IF Head(w) = Quote THEN <<Backslash, Quote>> ELSE <<Head(w)>>)
         \o EscapeQuotes(Tail(w))

\* _card_gen.py:298  f'deck:"{self._deck_name}" "Word:{escaped_word}"'
DedupQuery(word) == [deck |-> deck_name, field |-> "Word", term |-> EscapeQuotes(word)]

\* _card_gen.py:44-64  _format_definitions: "for i, (en, cn) in
\* enumerate(definitions, 1)" unpacks every definition into two names and
\* raises ValueError on one that has not two elements.
_format_definitions(definitions) ==
    IF \E i \in 1..Len(definitions) : Len(definitions[i]) # 2
    THEN [raises |-> TRUE, en |-> <<>>, cn |-> <<>>]
    ELSE [raises |-> FALSE,
          en |-> [i \in 1..Len(definitions) |-> definitions[i][1]],
          cn |-> [i \in 1..Len(definitions) |-> definitions[i][2]]]

Vowels == {"a", "e", "i", "o", "u"}

\* _card_gen.py:207-224  _generate_syllabication, from character i on
RECURSIVE SyllabifyFrom(_, _)
SyllabifyFrom(w, i) ==
    IF i > Len(w) THEN <<>>
    ELSE LET hyphen == /\ i > 1
                       /\ w[i] \notin Vowels
                       /\ w[i - 1] \in Vowels
                       /\ i < Len(w)
                       /\ w[i + 1] \notin Vowels
         IN (IF hyphen THEN <<"-", w[i]>> ELSE <<w[i]>>) \o SyllabifyFrom(w, i + 1)

_generate_syllabication(word) == SyllabifyFrom(word, 1)

\* _card_gen.py:445-461  the dict fields; the answer's records carry no
\* pronunciations, synonyms, notes or syllabication, so those are what the
\* formatters give for nothing.
BuildFields(cd, word, us, uk, examples, images) ==
    [k \in FieldNames |->
        CASE k = "Word" -> CardGet(cd, "word", word)
          [] k = "US Audio" -> us
          [] k = "UK Audio" -> uk
          [] k = "Word Form" -> CardGet(cd, "word_form", "")
          [] k = "Definition EN" ->
                _format_definitions(CardGet(cd, "definitions", <<>>)).en
          [] k = "Definition CN" ->
                _format_definitions(CardGet(cd, "definitions", <<>>)).cn
          [] k = "Examples" -> examples
          [] k = "Images" -> images
          [] k = "User Notes" -> ""
          [] k = "Frequency" -> CardGet(cd, "frequency", "")
          [] k = "Syllabication" -> _generate_syllabication(CardGet(cd, "word", word))
          [] OTHER -> ""]

\* _card_gen.py:469-474
BuildTags(tg, frequency) ==
    (IF tg # <<>> THEN tg ELSE <<>>) \o <<"ai-generated">>
    \o (IF frequency # "" THEN <<frequency>> ELSE <<>>)

\* mutant of CallerTags: all_tags is the caller's list itself
CallerTagsAliased(tg, all) == all

\* _card_gen.py:469  "all_tags = tags.copy() if tags else []": the appends
\* of lines 470-474 go to a list of their own, and the caller's list tg is
\* after them what it was before
CallerTags(tg, all) == tg

\* dict.pop(k, None)
Pop(f, k) == [x \in DOMAIN f \ {k} |-> f[x]]

\* ---- the AnkiConnect bridge as services/anki_connect.py uses it

Note(id, w, f, un, tg) ==
    [noteId |-> id, word |-> w, form |-> f, user_notes |-> un, tags |-> tg]

\* findNotes: the ids of the deck's notes whose Word field is the query's
\* term, oldest first.
BridgeFindNotes(d, query) ==
    LET Match(n) == EscapeQuotes(n.word) = query.term
        hits == SelectSeq(d, Match)
    IN [i \in 1..Len(hits) |-> hits[i].noteId]

\* notesInfo: one entry per id, in the order asked.
BridgeNotesInfo(d, ids) == [i \in 1..Len(ids) |-> d[ids[i]]]

\* updateNoteFields: the fields of the payload replace the note's.
BridgeUpdateNoteFields(d, id, payload) ==
    [d EXCEPT ![id] =
        [@ EXCEPT !.word = payload["Word"],
                  !.form = payload["Word Form"],
                  !.user_notes = IF "User Notes" \in DOMAIN payload
                                 THEN payload["User Notes"] ELSE @]]

\* addNote: a new note with the next id. The request carries
\* options.allowDuplicate = false (anki_connect.py:104), on which Anki refuses
\* a note whose first field equals that of another note of the note type;
\* the note type is not defined by the repository and the deck is meant to
\* hold one note per form of a word, so a refusal is one of the ways the
\* call ends with an error and not something the generator can count on.
BridgeAddNote(d, payload, tg) ==
    Append(d, Note(Len(d) + 1, payload["Word"], payload["Word Form"],
                   payload["User Notes"], tg))

\* A note of another note type has no "Word Form" field.
NoField == "<no field>"

\* _card_gen.py:311  note["fields"].get("Word Form", {}).get("value", "")
WordFormOf(note) == IF note.form = NoField THEN "" ELSE note.form

\* mutant of FirstMatchingNote: only the first note found is looked at
FirstNoteOnly(notes_info, word_form) ==
    IF notes_info = <<>> THEN None
    ELSE IF WordFormOf(Head(notes_info)) = word_form
    THEN Head(notes_info).noteId
    ELSE None

\* mutant of FirstMatchingNote: the first note found, whatever its form
FirstNoteFound(notes_info, word_form) ==
    IF notes_info = <<>> THEN None ELSE notes_info[1].noteId

\* _card_gen.py:309-319  the first note whose "Word Form" is word_form
RECURSIVE FirstMatchingNote(_, _)
FirstMatchingNote(notes_info, word_form) ==
    IF notes_info = <<>> THEN None
    ELSE IF WordFormOf(Head(notes_info)) = word_form THEN Head(notes_info).noteId
    ELSE FirstMatchingNote(Tail(notes_info), word_form)

\* mutant of _find_existing_note: when notesInfo fails the first id that
\* findNotes gave is taken for the existing note
FindExistingNoteTrustsFind(d, word, word_form, fo, io) ==
    LET query == DedupQuery(word)
        find == [svc |-> "bridge", action |-> "findNotes", arg |-> query,
                 ok |-> fo = "ok"]
        note_ids == BridgeFindNotes(d, query)
        info == [svc |-> "bridge", action |-> "notesInfo", arg |-> note_ids,
                 ok |-> io = "ok"]
    IN IF fo = "raises"
       THEN [id |-> None, calls |-> <<find>>, faults |-> 1]
       ELSE IF note_ids = <<>>
       THEN [id |-> None, calls |-> <<find>>, faults |-> 0]
       ELSE IF io = "raises"
       THEN [id |-> note_ids[1], calls |-> <<find, info>>, faults |-> 1]
       ELSE [id |-> FirstMatchingNote(BridgeNotesInfo(d, note_ids), word_form),
             calls |-> <<find, info>>, faults |-> 0]

\* mutant of _find_existing_note: the lookup never finds a note
FindExistingNoteNever(d, word, word_form, fo, io) ==
    [id |-> None,
     calls |-> <<[svc |-> "bridge", action |-> "findNotes",
                  arg |-> DedupQuery(word), ok |-> fo = "ok"]>>,
     faults |-> IF fo = "ok" THEN 0 ELSE 1]

\* _card_gen.py:285-323  _find_existing_note; fo and io are how the bridge's
\* findNotes and notesInfo calls end ("ok" or "raises")
_find_existing_note(d, word, word_form, fo, io) ==
    LET query == DedupQuery(word)
        find == [svc |-> "bridge", action |-> "findNotes", arg |-> query,
                 ok |-> fo = "ok"]
        note_ids == BridgeFindNotes(d, query)
        info == [svc |-> "bridge", action |-> "notesInfo", arg |-> note_ids,
                 ok |-> io = "ok"]
    IN IF fo = "raises"
       THEN [id |-> None, calls |-> <<find>>, faults |-> 1]
       ELSE IF note_ids = <<>>
       THEN [id |-> None, calls |-> <<find>>, faults |-> 0]
       ELSE IF io = "raises"
       THEN [id |-> None, calls |-> <<find, info>>, faults |-> 1]
       ELSE [id |-> FirstMatchingNote(BridgeNotesInfo(d, note_ids), word_form),
             calls |-> <<find, info>>, faults |-> 0]

\* _card_gen.py:274  f"[sound:{stored_filename}]"
SoundTag(language_code) ==
    IF language_code = "en-US" THEN "[sound:tts_word_us.mp3]"
    ELSE "[sound:tts_word_uk.mp3]"

\* services/tts.py:68  synthesize_with_random_voice is a plain function, not
\* a coroutine function.
TtsIsCoroutine == FALSE

\* _card_gen.py:254-283  _generate_audio: the sound tag, or "" for None.
\* tts is how the synthesis call ends, so how the bridge's storeMediaFile
\* ends. Awaiting the tuple a plain function returned raises TypeError inside
\* the try, which the except clause turns into None.
_generate_audio(language_code, audio_type, tts, so) ==
    LET synth == [svc |-> "tts", action |-> "synthesize_with_random_voice",
                  arg |-> language_code, text |-> audio_type, ok |-> tts = "ok"]
        store == [svc |-> "bridge", action |-> "storeMediaFile",
                  arg |-> <<"tts", language_code>>, text |-> audio_type,
                  ok |-> so = "ok"]
    IN IF tts = "raises" \/ ~TtsIsCoroutine
       THEN [tag |-> "", calls |-> <<synth>>,
             faults |-> IF tts = "raises" THEN 1 ELSE 0]
       ELSE IF so = "raises"
       THEN [tag |-> "", calls |-> <<synth, store>>, faults |-> 1]
       ELSE [tag |-> SoundTag(language_code),
             calls |-> <<synth, store>>, faults |-> 0]

\* _card_gen.py:66-115  _format_examples on a record of n example
\* sentences, from sentence i on; outs is how the synthesis of each
\* sentence ends. Each sentence is listed with its sound tag, "" for none.
RECURSIVE ExampleLoop(_, _, _)
ExampleLoop(n, outs, i) ==
    IF i > n
    THEN [text |-> <<>>, calls |-> <<>>, faults |-> 0]
    ELSE LET rest == ExampleLoop(n, outs, i + 1)
             audio == _generate_audio("en-US", "sentence", outs[i], "ok")
         IN [text |-> <<[sentence |-> i, audio |-> audio.tag]>> \o rest.text,
             calls |-> audio.calls \o rest.calls,
             faults |-> audio.faults + rest.faults]

_format_examples(n, outs) == ExampleLoop(n, outs, 1)

\* What can happen to one image candidate: stored; no thumbnail URL; the
\* download gives None; storeMediaFile raises.
ImgOutcomes == {"ok", "no_thumbnail", "download_none", "store_raises"}

ImgName(i) == <<"img_1.jpg", "img_2.jpg", "img_3.jpg">>[i]

\* _card_gen.py:149-179  the loop over images[:num_images], from candidate i
RECURSIVE ImageLoop(_, _)
ImageLoop(outs, i) ==
    IF i > Len(outs) \/ i > num_images
    THEN [tags |-> <<>>, calls |-> <<>>, faults |-> 0]
    ELSE LET rest == ImageLoop(outs, i + 1)
             download == [svc |-> "image", action |-> "download_image", arg |-> i,
                          ok |-> outs[i] # "download_none"]
             store == [svc |-> "bridge", action |-> "storeMediaFile",
                       arg |-> <<"img", ImgName(i)>>,
                       ok |-> outs[i] # "store_raises"]
         IN CASE outs[i] = "no_thumbnail" ->
                    [rest EXCEPT !.faults = @ + 1]
              [] outs[i] = "download_none" ->
                    [rest EXCEPT !.calls = <<download>> \o @, !.faults = @ + 1]
              [] outs[i] = "store_raises" ->
                    [rest EXCEPT !.calls = <<download, store>> \o @,
                                 !.faults = @ + 1]
              [] OTHER ->
                    [tags |-> <<ImgName(i)>> \o rest.tags,
                     calls |-> <<download, store>> \o rest.calls,
                     faults |-> rest.faults]

\* mutant of _search_and_store_images: one failed image drops them all
SearchAndStoreAllOrNothing(word, search, outs) ==
    LET call == [svc |-> "image", action |-> "search_word_image", arg |-> word]
        loop == ImageLoop(outs, 1)
    IN IF search = "raises"
       THEN [tags |-> <<>>, calls |-> <<call>>, faults |-> 1]
       ELSE [tags |-> IF loop.faults = 0 THEN loop.tags ELSE <<>>,
             calls |-> <<call>> \o loop.calls, faults |-> loop.faults]

\* _card_gen.py:128-186  _search_and_store_images; search is how
\* search_word_image ends and outs what happens to each image it returned
_search_and_store_images(word, search, outs) ==
    LET call == [svc |-> "image", action |-> "search_word_image", arg |-> word]
        loop == ImageLoop(outs, 1)
    IN IF search = "raises"
       THEN [tags |-> <<>>, calls |-> <<call>>, faults |-> 1]
       ELSE [loop EXCEPT !.calls = <<call>> \o @]

\* _card_gen.py:325-341  _get_user_notes; uo is how notesInfo ends
_get_user_notes(d, note_id, uo) ==
    IF uo = "raises" THEN "" ELSE d[note_id].user_notes

\* mutant of UpdatePayload: the empty "User Notes" stays in the payload
UpdatePayloadKeepKey(flds, user_notes) ==
    [flds EXCEPT !["User Notes"] = user_notes]

\* _card_gen.py:488-493
UpdatePayload(flds, user_notes) ==
    IF user_notes # ""
    THEN [flds EXCEPT !["User Notes"] = user_notes]
    ELSE Pop(flds, "User Notes")

\* What a generate_card call ends with: nothing yet, a returned pair, or an
\* exception with its message and the exception it was raised from.
NoRet ==
    [kind |-> "none", note_id |-> None, is_updated |-> FALSE, error |-> "",
     cause |-> ""]
Returned(id, upd) ==
    [kind |-> "ok", note_id |-> id, is_updated |-> upd, error |-> "",
     cause |-> ""]
Raised(e) ==
    [kind |-> "error", note_id |-> None, is_updated |-> FALSE, error |-> e,
     cause |-> ""]

\* _card_gen.py:60  what the unpacking of a definition of three elements
\* raises; nothing in generate_card catches it
UnpackError == "ValueError: too many values to unpack (expected 2)"

\* anki_connect.py:75  what a bridge operation raises
BridgeFailure == "RuntimeError: AnkiConnect error"

\* mutant of WriteErrorMessage: one message for both operations
WriteErrorMessageGeneric(action) == "RuntimeError: Failed to add card to Anki"

\* _card_gen.py:505, 526  the message of the error raised for a failed write
WriteErrorMessage(action) ==
    IF action = "updateNoteFields"
    THEN "RuntimeError: Failed to update card in Anki"
    ELSE "RuntimeError: Failed to add card to Anki"

\* _card_gen.py:503-505, 524-526  raise RuntimeError(...) from e
WriteError(action) ==
    [Raised(WriteErrorMessage(action)) EXCEPT !.cause = BridgeFailure]

CurWord == words[idx]

\* mutant of StepAfter: the images are fetched before the formatting
StepAfterImagesFirst(step) ==
    CASE step = "dedup" -> "audio"
      [] step = "audio" -> "images"
      [] step = "images" -> "format"
      [] step = "format" -> "write"

\* _card_gen.py:381-479  the order of the steps of generate_card after the
\* analysis: lookup (381), word audio (399), formatting (415), images
\* (434), write (479)
StepAfter(step) ==
    CASE step = "dedup" -> "audio"
      [] step = "audio" -> "format"
      [] step = "format" -> "images"
      [] step = "images" -> "write"

\* The locals of a generate_card call before its first statement.
RunReset ==
    /\ card_data' = NoCard
    /\ existing_note_id' = None
    /\ us_audio' = ""
    /\ uk_audio' = ""
    /\ examples_formatted' = <<>>
    /\ images_html' = <<>>
    /\ fields' = <<>>
    /\ all_tags' = <<>>
    /\ calls' = <<>>
    /\ ret' = NoRet
    /\ faults' = 0

\* The notes a deck can hold: notes of the generator's note type, and notes
\* of another type that have a "Word" but no "Word Form" field.
NoteKinds ==
    [word : Words, form : WordForms, user_notes : UserNotes]
    \cup [word : Words, form : {NoField}, user_notes : {""}]

\* The decks of up to n notes, ids in order of creation.
DecksOf(kinds, n) ==
    UNION {{[i \in 1..m |-> Note(i, ks[i].word, ks[i].form, ks[i].user_notes, <<>>)] :
                ks \in [1..m -> kinds]} : m \in 0..n}
Decks(n) == DecksOf(NoteKinds, n)

\* The notes the user has written nothing on.
PlainNoteKinds == {k \in NoteKinds : k.user_notes = ""}

\* The word lists of lengths lo..hi.
WordLists(lo, hi) == UNION {[1..n -> Words] : n \in lo..hi}

\* generate_cards_batch(words, tags, force_new, include_images) is called
\* on one of the given decks with arguments from the given sets.
InitGenOver(decks, lists, taglists, forces, imgs) ==
    /\ deck \in decks
    /\ words \in lists
    /\ tags \in taglists
    /\ force_new \in forces
    /\ include_images \in imgs
    /\ idx = 1
    /\ results = <<>>
    /\ outcomes = <<>>
    /\ gpc = IF words = <<>> THEN "batch_done" ELSE "analyze"
    /\ card_data = NoCard
    /\ existing_note_id = None
    /\ us_audio = ""
    /\ uk_audio = ""
    /\ examples_formatted = <<>>
    /\ images_html = <<>>
    /\ fields = <<>>
    /\ all_tags = <<>>
    /\ calls = <<>>
    /\ ret = NoRet
    /\ faults = 0

\* No generation is requested.
GenIdle ==
    /\ deck = <<>>
    /\ words = <<>>
    /\ tags = <<>>
    /\ force_new = FALSE
    /\ include_images = FALSE
    /\ idx = 1
    /\ results = <<>>
    /\ outcomes = <<>>
    /\ gpc = "batch_done"
    /\ card_data = NoCard
    /\ existing_note_id = None
    /\ us_audio = ""
    /\ uk_audio = ""
    /\ examples_formatted = <<>>
    /\ images_html = <<>>
    /\ fields = <<>>
    /\ all_tags = <<>>
    /\ calls = <<>>
    /\ ret = NoRet
    /\ faults = 0

\* _card_gen.py:365-379  Step 1: the analysis and the check of its answer
Analyze(resp) ==
    /\ gpc = "analyze"
    /\ calls' = Append(calls,
            [svc |-> "ai", action |-> "generate_cards", arg |-> CurWord,
             res |-> resp.kind])
    /\ IF resp.kind = "raises"
       THEN /\ gpc' = "failed"
            /\ ret' = Raised("ValueError: AI service")
            /\ UNCHANGED card_data
       ELSE IF InvalidAiResponse(resp)
       THEN /\ gpc' = "failed"
            /\ ret' = Raised("ValueError: Invalid AI response")
            /\ UNCHANGED card_data
       ELSE IF resp.kind = "list_of_str"
       THEN /\ gpc' = "failed"
            /\ ret' = Raised("AttributeError")
            /\ UNCHANGED card_data
       ELSE /\ gpc' = "dedup"
            /\ card_data' = resp.cd
            /\ UNCHANGED ret
    /\ UNCHANGED <<deck, batchVars, existing_note_id, us_audio, uk_audio,
                   examples_formatted, images_html, fields, all_tags, faults,
                   sessionVars, retryVars, invokeVars, ttsVars, queryVars>>

\* mutant of Dedup: the lookup is made whatever force_new says
DedupIgnoringForceNew(fo, io) ==
    /\ gpc = "dedup"
    /\ LET r == _find_existing_note(deck, CardGet(card_data, "word", CurWord),
                                    CardGet(card_data, "word_form", ""), fo, io)
       IN /\ fo = "raises" => io = "ok"
          /\ Len(r.calls) = 1 => io = "ok"
          /\ faults + r.faults <= MaxFaults
          /\ existing_note_id' = r.id
          /\ calls' = calls \o r.calls
          /\ faults' = faults + r.faults
    /\ gpc' = StepAfter("dedup")
    /\ UNCHANGED <<deck, batchVars, card_data, us_audio, uk_audio,
                   examples_formatted, images_html,
                   fields, all_tags, ret, sessionVars, retryVars, invokeVars,
                   ttsVars, queryVars>>

\* _card_gen.py:381-397  Step 2: the lookup of an existing note
Dedup(fo, io) ==
    /\ gpc = "dedup"
    /\ LET r == _find_existing_note(deck, CardGet(card_data, "word", CurWord),
                                    CardGet(card_data, "word_form", ""), fo, io)
       IN IF force_new
          THEN /\ fo = "ok" /\ io = "ok"
               /\ existing_note_id' = None
               /\ UNCHANGED <<calls, faults>>
          ELSE /\ fo = "raises" => io = "ok"
               /\ Len(r.calls) = 1 => io = "ok"
               /\ faults + r.faults <= MaxFaults
               /\ existing_note_id' = r.id
               /\ calls' = calls \o r.calls
               /\ faults' = faults + r.faults
    /\ gpc' = StepAfter("dedup")
    /\ UNCHANGED <<deck, batchVars, card_data, us_audio, uk_audio,
                   examples_formatted, images_html,
                   fields, all_tags, ret, sessionVars, retryVars, invokeVars, ttsVars, queryVars>>

\* _card_gen.py:399-413  Step 3: the US and the UK audio of the word
Audio(tts_us, tts_uk, so_us, so_uk) ==
    /\ gpc = "audio"
    /\ LET us == _generate_audio("en-US", "word", tts_us, so_us)
           uk == _generate_audio("en-GB", "word", tts_uk, so_uk)
       IN /\ Len(us.calls) = 1 => so_us = "ok"
          /\ Len(uk.calls) = 1 => so_uk = "ok"
          /\ faults + us.faults + uk.faults <= MaxFaults
          /\ us_audio' = us.tag
          /\ uk_audio' = uk.tag
          /\ calls' = calls \o us.calls \o uk.calls
          /\ faults' = faults + us.faults + uk.faults
    /\ gpc' = StepAfter("audio")
    /\ UNCHANGED <<deck, batchVars, card_data, existing_note_id,
                   examples_formatted, images_html,
                   fields, all_tags, ret, sessionVars, retryVars, invokeVars, ttsVars, queryVars>>

\* _card_gen.py:415-432  Step 4: definitions, examples and syllabication;
\* _format_definitions comes first and its error ends the call;
\* _format_examples asks for the en-US audio of every example sentence, and
\* outs is how each of these syntheses ends
Format(outs) ==
    /\ gpc = "format"
    /\ IF _format_definitions(CardGet(card_data, "definitions", <<>>)).raises
       THEN /\ outs = <<>>
            /\ gpc' = "failed"
            /\ ret' = Raised(UnpackError)
            /\ UNCHANGED <<examples_formatted, calls, faults>>
       ELSE /\ Len(outs) = CardGet(card_data, "examples", 0)
            /\ LET r == _format_examples(CardGet(card_data, "examples", 0), outs)
               IN /\ faults + r.faults <= MaxFaults
                  /\ examples_formatted' = r.text
                  /\ calls' = calls \o r.calls
                  /\ faults' = faults + r.faults
            /\ gpc' = StepAfter("format")
            /\ UNCHANGED ret
    /\ UNCHANGED <<deck, batchVars, card_data, existing_note_id, us_audio,
                   uk_audio, images_html, fields, all_tags,
                   sessionVars, retryVars, invokeVars, ttsVars, queryVars>>

\* _card_gen.py:434-477  Step 5: the images, then the dict fields and the tags
Images(search, outs) ==
    /\ gpc = "images"
    /\ LET word == CardGet(card_data, "word", CurWord)
           r == _search_and_store_images(word, search, outs)
           imgs == IF include_images THEN r.tags ELSE <<>>
       IN /\ IF include_images
             THEN /\ search = "raises" => outs = <<>>
                  /\ faults + r.faults <= MaxFaults
                  /\ calls' = calls \o r.calls
                  /\ faults' = faults + r.faults
             ELSE /\ search = "ok" /\ outs = <<>>
                  /\ UNCHANGED <<calls, faults>>
          /\ images_html' = imgs
          /\ fields' = BuildFields(card_data, CurWord, us_audio, uk_audio,
                                   examples_formatted, imgs)
          /\ all_tags' = BuildTags(tags, CardGet(card_data, "frequency", ""))
          /\ tags' = CallerTags(tags,
                        BuildTags(tags, CardGet(card_data, "frequency", "")))
    /\ gpc' = StepAfter("images")
    /\ UNCHANGED <<deck, words, force_new, include_images, idx, results,
                   outcomes, card_data, existing_note_id, us_audio,
                   uk_audio, examples_formatted, ret,
                   sessionVars, retryVars, invokeVars, ttsVars, queryVars>>

\* mutant of Write: a note is added after the update of the note found
WriteUpdateThenAdd(uo, wo) ==
    /\ gpc = "write"
    /\ uo = "ok" /\ wo = "ok"
    /\ calls' = calls
            \o (IF existing_note_id # None
                THEN <<[svc |-> "bridge", action |-> "updateNoteFields",
                        arg |-> [id |-> existing_note_id, fields |-> fields],
                        ok |-> TRUE]>>
                ELSE <<>>)
            \o <<[svc |-> "bridge", action |-> "addNote",
                  arg |-> [deckName |-> deck_name, modelName |-> model_name,
                           fields |-> fields, tags |-> all_tags],
                  ok |-> TRUE, val |-> Len(deck) + 1]>>
    /\ deck' = BridgeAddNote(deck, fields, all_tags)
    /\ ret' = Returned(Len(deck) + 1, FALSE)
    /\ gpc' = "done"
    /\ UNCHANGED <<batchVars, card_data, existing_note_id, us_audio, uk_audio,
                   examples_formatted, images_html, fields, all_tags, faults,
                   sessionVars, retryVars, invokeVars, ttsVars, queryVars>>

\* _card_gen.py:479-526  Step 6: update the note found, or add a new one;
\* uo and wo are how the bridge's notesInfo and its write end
Write(uo, wo) ==
    /\ gpc = "write"
    /\ IF existing_note_id # None
       THEN LET user_notes == _get_user_notes(deck, existing_note_id, uo)
                payload == UpdatePayload(fields, user_notes)
                used == (IF uo = "raises" THEN 1 ELSE 0)
                        + (IF wo = "raises" THEN 1 ELSE 0)
            IN /\ faults + used <= MaxFaults
               /\ faults' = faults + used
               /\ fields' = payload
               /\ calls' = calls \o
                    <<[svc |-> "bridge", action |-> "notesInfo",
                       arg |-> <<existing_note_id>>, ok |-> uo = "ok"],
                      [svc |-> "bridge", action |-> "updateNoteFields",
                       arg |-> [id |-> existing_note_id, fields |-> payload],
                       ok |-> wo = "ok"]>>
               /\ IF wo = "ok"
                  THEN /\ deck' = BridgeUpdateNoteFields(deck, existing_note_id, payload)
                       /\ ret' = Returned(existing_note_id, TRUE)
                       /\ gpc' = "done"
                  ELSE /\ ret' = WriteError("updateNoteFields")
                       /\ gpc' = "failed"
                       /\ UNCHANGED deck
       ELSE /\ uo = "ok"
            /\ faults + (IF wo = "raises" THEN 1 ELSE 0) <= MaxFaults
            /\ faults' = faults + (IF wo = "raises" THEN 1 ELSE 0)
            /\ calls' = Append(calls,
                    [svc |-> "bridge", action |-> "addNote",
                     arg |-> [deckName |-> deck_name, modelName |-> model_name,
                              fields |-> fields, tags |-> all_tags],
                     ok |-> wo = "ok", val |-> Len(deck) + 1])
            /\ IF wo = "ok"
               THEN /\ deck' = BridgeAddNote(deck, fields, all_tags)
                    /\ ret' = Returned(Len(deck) + 1, FALSE)
                    /\ gpc' = "done"
               ELSE /\ ret' = WriteError("addNote")
                    /\ gpc' = "failed"
                    /\ UNCHANGED deck
            /\ UNCHANGED fields
    /\ UNCHANGED <<batchVars, card_data, existing_note_id, us_audio, uk_audio,
                   examples_formatted, images_html, all_tags,
                   sessionVars, retryVars, invokeVars, ttsVars, queryVars>>

\* mutant of BatchEntry: a failure is recorded with the id of the last success
BatchEntryStale(r, prev) ==
    IF r.kind = "ok" THEN [note_id |-> r.note_id, is_updated |-> r.is_updated]
    ELSE prev

\* _card_gen.py:549-556  what the batch loop stores for a call that returned
\* or raised; prev is the word's entry so far, if any
BatchEntry(r, prev) ==
    IF r.kind = "ok" THEN [note_id |-> r.note_id, is_updated |-> r.is_updated]
    ELSE [note_id |-> None, is_updated |-> FALSE]

NoEntry == [note_id |-> None, is_updated |-> FALSE]

\* _card_gen.py:546-556  generate_card is back and its locals are gone: the
\* loop body stores the entry of the word and goes to the next word, or the
\* loop ends
BatchRecord ==
    /\ gpc \in {"done", "failed"}
    /\ LET prev == IF CurWord \in DOMAIN results THEN results[CurWord] ELSE NoEntry
           entry == BatchEntry(ret, prev)
       IN results' = [w \in DOMAIN results \cup {CurWord} |->
                        IF w = CurWord THEN entry ELSE results[w]]
    /\ outcomes' = Append(outcomes,
            [word |-> CurWord, raised |-> ret.kind = "error",
             note_id |-> ret.note_id, is_updated |-> ret.is_updated])
    /\ idx' = idx + 1
    /\ gpc' = IF idx + 1 <= Len(words) THEN "analyze" ELSE "batch_done"
    /\ RunReset
    /\ UNCHANGED <<deck, words, tags, force_new, include_images,
                   sessionVars, retryVars, invokeVars, ttsVars, queryVars>>

Outcomes2 == {"ok", "raises"}

MaxExamples == 1
ExampleOutcomeLists == UNION {[1..n -> Outcomes2] : n \in 0..MaxExamples}

ImgOutcomeLists == UNION {[1..n -> ImgOutcomes] : n \in 0..num_images}

GenNext ==
    \/ \E resp \in AiOutcomes : Analyze(resp)
    \/ \E fo \in Outcomes2, io \in Outcomes2 : Dedup(fo, io)
    \/ \E tu \in Outcomes2, tk \in Outcomes2, su \in Outcomes2, sk \in Outcomes2 :
            Audio(tu, tk, su, sk)
    \/ \E outs \in ExampleOutcomeLists : Format(outs)
    \/ \E search \in Outcomes2, outs \in ImgOutcomeLists : Images(search, outs)
    \/ \E uo \in Outcomes2, wo \in Outcomes2 : Write(uo, wo)
    \/ BatchRecord

(***************************************************************************)
(* The AnkiConnect clients: AnkiConnectClient._invoke (ankinote and         *)
(* anki_smart_deck) and AnkiConnect.invoke (_ankiconnect.py)                *)
(***************************************************************************)

Clients == {"ankinote", "anki_smart_deck", "_ankiconnect"}
Actions == {"addNote", "updateNoteFields", "findNotes"}

\* JSON null in a response body.
JsonNull == "<null>"

\* The bodies the bridge answers with: {"result": ..., "error": ...} with a
\* null error, an error message, or an empty error message.
ErrorValues == {JsonNull, "", "deck was not found"}
ResultValues == {JsonNull, "1496198395707"}
ResponseBodies == [result : ResultValues, error : ErrorValues]

\* How a POST ends: with a response body, or with an exception of aiohttp
\* (requests for _ankiconnect.py).
PostOutcomes == {"response", "ClientError", "TimeoutError"}

\* Python truthiness of a str or None.
TruthyStr(v) == v # JsonNull /\ v # ""

NoOut == [kind |-> "none", type |-> "", val |-> ""]
OutResult(v) == [kind |-> "result", type |-> "", val |-> v]
OutError(type, msg) == [kind |-> "error", type |-> type, val |-> msg]

\* ankinote/services/anki_connect.py:434-438
\*   error = result["error"]; if error is not None: raise RuntimeError(...)
AnkinoteCheck(body) ==
    IF body.error # JsonNull
    THEN OutError("RuntimeError: AnkiConnect error", body.error)
    ELSE OutResult(body.result)

\* anki_smart_deck/services/anki_connect.py:74-77
\*   if result.get("error"): raise RuntimeError(...)
SmartDeckCheck(body) ==
    IF TruthyStr(body.error)
    THEN OutError("RuntimeError: AnkiConnect error", body.error)
    ELSE OutResult(body.result)

\* anki_smart_deck/_ankiconnect.py:51-56; the body has its two fields
LegacyCheck(body) ==
    IF Cardinality(DOMAIN body) # 2
    THEN OutError("Exception", "Response has unexpected number of fields")
    ELSE IF "error" \in DOMAIN body /\ body.error # JsonNull
    THEN OutError("Exception", body.error)
    ELSE OutResult(body.result)

CheckResponse(client, body) ==
    CASE client = "ankinote" -> AnkinoteCheck(body)
      [] client = "anki_smart_deck" -> SmartDeckCheck(body)
      [] OTHER -> LegacyCheck(body)

\* No client call is in progress.
InvokeIdle ==
    /\ ipc = "idle"
    /\ i_client = "ankinote"
    /\ i_action = "addNote"
    /\ i_response = [result |-> JsonNull, error |-> JsonNull]
    /\ i_posts = 0
    /\ i_log = <<>>
    /\ i_out = NoOut

\* A client method is called; the bridge will answer with i_response.
InvokeInit ==
    /\ ipc = "post"
    /\ i_client \in Clients
    /\ i_action \in Actions
    /\ i_response \in ResponseBodies
    /\ i_posts = 0
    /\ i_log = <<>>
    /\ i_out = NoOut

\* mutant of SmartDeckRetries: "except Exception"
SmartDeckRetriesAll(t) == TRUE

\* anki_smart_deck/services/anki_connect.py:64  "except (aiohttp.ClientError,
\* aiohttp.ServerDisconnectedError)"
SmartDeckRetries(t) == t = "ClientError"

\* The POST of the call: session.post(...) / requests.post(...).
\* anki_smart_deck/services/anki_connect.py:60-64, ankinote ...:430-433,
\* _ankiconnect.py:46-49. The session of the ankinote client is the one of
\* get_session(), built with middlewares=[retry_middleware]
\* (httpcli.py:38), so a request that ends with an error the middleware
\* catches is sent again, max_retries times in all.
InvokePost(t) ==
    /\ ipc = "post"
    /\ i_posts' = i_posts + 1
    /\ i_log' = Append(i_log, t)
    /\ IF t = "response"
       THEN ipc' = "check" /\ UNCHANGED i_out
       ELSE IF i_client = "anki_smart_deck" /\ SmartDeckRetries(t)
       THEN ipc' = "retry_post" /\ UNCHANGED i_out
       ELSE IF i_client = "ankinote" /\ Caught(t) /\ ~LastAttempt(i_posts)
       THEN ipc' = "post" /\ UNCHANGED i_out
       ELSE ipc' = "raised" /\ i_out' = OutError(t, "")
    /\ UNCHANGED <<i_client, i_action, i_response, sessionVars, retryVars, genVars, ttsVars, queryVars>>

\* anki_smart_deck/services/anki_connect.py:65-72  "recreate and retry once"
InvokeRetryPost(t) ==
    /\ ipc = "retry_post"
    /\ i_posts' = i_posts + 1
    /\ i_log' = Append(i_log, t)
    /\ IF t = "response"
       THEN ipc' = "check" /\ UNCHANGED i_out
       ELSE ipc' = "raised" /\ i_out' = OutError(t, "")
    /\ UNCHANGED <<i_client, i_action, i_response, sessionVars, retryVars, genVars, ttsVars, queryVars>>

\* The check of the body's error field and the return of its result.
InvokeCheck ==
    /\ ipc = "check"
    /\ i_out' = CheckResponse(i_client, i_response)
    /\ ipc' = IF i_out'.kind = "error" THEN "raised" ELSE "returned"
    /\ UNCHANGED <<i_client, i_action, i_response, i_posts, i_log,
                   sessionVars, retryVars, genVars, ttsVars, queryVars>>

InvokeNext ==
    \/ \E t \in PostOutcomes : InvokePost(t)
    \/ \E t \in PostOutcomes : InvokeRetryPost(t)
    \/ InvokeCheck

(***************************************************************************)
(* The speech client: GoogleTTSService                                     *)
(***************************************************************************)

\* Bound of the speech client model: the number of calls on the instance.
MaxTtsCalls == 4

LanguageCodes == {"en-US", "en-GB"}

\* The voices of the backend: a name and the family the name shows.
Voice(name, family) == [name |-> name, family |-> family]
VoiceLists ==
    {<<>>,
     <<Voice("Standard-A", "Standard")>>,
     <<Voice("Wavenet-A", "Wavenet"), Voice("Standard-A", "Standard"),
       Voice("Wavenet-B", "Wavenet")>>}

\* How list_voices ends: it raises, or it answers with a list of voices.
ListVoicesOutcomes ==
    {[kind |-> "raises", voices |-> <<>>]}
    \cup {[kind |-> "ok", voices |-> l] : l \in VoiceLists}

\* tts.py:57  "Wavenet" in voice.name or "WaveNet" in voice.name
IsWavenet(v) == v.family \in {"Wavenet", "WaveNet"}

\* mutant of CacheStore: an empty list is not kept
CacheStoreNonEmpty(cache, language_code, voices) ==
    IF voices = <<>> THEN cache
    ELSE [l \in DOMAIN cache \cup {language_code} |->
            IF l = language_code THEN voices ELSE cache[l]]

\* tts.py:61  self._wavenet_voices_cache[language_code] = wavenet_voices
CacheStore(cache, language_code, voices) ==
    [l \in DOMAIN cache \cup {language_code} |->
        IF l = language_code THEN voices ELSE cache[l]]

\* tts.py:36-66  get_wavenet_voices on the cache; lv is how list_voices ends
\* if it is called
get_wavenet_voices(cache, language_code, lv) ==
    IF language_code \in DOMAIN cache
    THEN [queried |-> FALSE, raises |-> FALSE, voices |-> cache[language_code],
          cache |-> cache]
    ELSE IF lv.kind = "raises"
    THEN [queried |-> TRUE, raises |-> TRUE, voices |-> <<>>, cache |-> cache]
    ELSE LET wavenet_voices == SelectSeq(lv.voices, IsWavenet)
         IN [queried |-> TRUE, raises |-> FALSE, voices |-> wavenet_voices,
             cache |-> CacheStore(cache, language_code, wavenet_voices)]

\* tts.py:16  self._wavenet_voices_cache = {}
TtsInit ==
    /\ _wavenet_voices_cache = <<>>
    /\ tts_log = <<>>

TtsEntry(op, language_code, g, raised, voice) ==
    [op |-> op, language_code |-> language_code, queried |-> g.queried,
     query_ok |-> g.queried /\ ~g.raises, available |-> g.voices,
     raised |-> raised, voice |-> voice]

\* tts.py:68-128  synthesize_with_random_voice(text, language_code); lv is
\* how list_voices ends, pick the voice random.choice takes and sy how
\* synthesize_speech ends
synthesize_with_random_voice(language_code, lv, pick, sy) ==
    /\ Len(tts_log) < MaxTtsCalls
    /\ LET g == get_wavenet_voices(_wavenet_voices_cache, language_code, lv)
       IN /\ ~g.queried => lv.kind = "raises"
          /\ _wavenet_voices_cache' = g.cache
          /\ IF g.raises
             THEN /\ pick = 1 /\ sy = "ok"
                  /\ tts_log' = Append(tts_log,
                        TtsEntry("synthesize", language_code, g,
                                 "list_voices error", ""))
             ELSE IF g.voices = <<>>
             THEN /\ pick = 1 /\ sy = "ok"
                  /\ tts_log' = Append(tts_log,
                        TtsEntry("synthesize", language_code, g,
                                 "ValueError", ""))
             ELSE /\ pick \in 1..Len(g.voices)
                  /\ tts_log' = Append(tts_log,
                        TtsEntry("synthesize", language_code, g,
                                 IF sy = "ok" THEN ""
                                 ELSE "synthesize_speech error",
                                 g.voices[pick].name))
    /\ UNCHANGED <<sessionVars, retryVars, genVars, invokeVars, queryVars>>

\* tts.py:174-177  clear_cache
clear_cache ==
    /\ Len(tts_log) < MaxTtsCalls
    /\ _wavenet_voices_cache' = <<>>
    /\ tts_log' = Append(tts_log,
            [op |-> "clear_cache", language_code |-> "", queried |-> FALSE,
             query_ok |-> FALSE, available |-> <<>>, raised |-> "",
             voice |-> ""])
    /\ UNCHANGED <<sessionVars, retryVars, genVars, invokeVars, queryVars>>

TtsNext ==
    \/ \E language_code \in LanguageCodes, lv \in ListVoicesOutcomes,
          pick \in 1..2, sy \in {"ok", "raises"} :
            synthesize_with_random_voice(language_code, lv, pick, sy)
    \/ clear_cache

(***************************************************************************)
(* The search query of the lookup                                          *)
(***************************************************************************)

\* Bound of the query model: the length of the word.
MaxWordLen == 4

\* The words the query is built for: any characters, a letter standing for
\* all that are neither a double quote nor a backslash.
QueryChars == {"a", Quote, Backslash}
QueryWords == UNION {[1..n -> QueryChars] : n \in 0..MaxWordLen}

\* _card_gen.py:298  f'deck:"{self._deck_name}" "Word:{escaped_word}"' as
\* the characters of the string; the deck name and the literal parts, which
\* hold neither a quote nor a backslash, are one element each.
QueryText(q) ==
    <<"deck:", Quote, q.deck, Quote, " ", Quote, q.field, ":">>
    \o q.term \o <<Quote>>

\* No query is being built.
QueryIdle ==
    /\ qpc = "idle"
    /\ q_word = <<>>
    /\ q_query = <<>>

\* _find_existing_note is called with any word.
QueryInit ==
    /\ qpc = "build"
    /\ q_word \in QueryWords
    /\ q_query = <<>>

\* _card_gen.py:295-298  the query of _find_existing_note(word, word_form)
BuildQuery ==
    /\ qpc = "build"
    /\ q_query' = QueryText(DedupQuery(q_word))
    /\ qpc' = "built"
    /\ UNCHANGED <<q_word, sessionVars, retryVars, genVars, invokeVars, ttsVars>>

QueryNext == BuildQuery

(***************************************************************************)
(* Specifications                                                          *)
(***************************************************************************)

\* No retry_middleware run is in progress.
RetryIdle ==
    /\ rpc = "idle"
    /\ req = "req1"
    /\ attempt = 0
    /\ handler_log = <<>>
    /\ sleeps = <<>>
    /\ r_result = [type |-> "none", val |-> "", n |-> 0]

SessionNext ==
    \/ \E running \in BOOLEAN : get_session(running)
    \/ close_session
    \/ \E s \in SessionIds : session_close(s)

RetryNext ==
    \/ \E resp \in Responses : HandlerReturns(resp)
    \/ \E kind \in ErrorKinds : HandlerRaises(kind)
    \/ SleepReturns

\* The session manager driven by any sequence of calls.
InitSession == SessionInit /\ RetryIdle /\ GenIdle /\ InvokeIdle /\ TtsInit /\ QueryIdle
SpecSession == InitSession /\ [][SessionNext]_vars

\* One run of retry_middleware against any handler.
InitRetry == SessionInit /\ RetryInit /\ GenIdle /\ InvokeIdle /\ TtsInit /\ QueryIdle
SpecRetry == InitRetry /\ [][RetryNext]_vars

\* One run of retry_middleware in which every awaited call comes back: the
\* handler returns or raises, asyncio.sleep returns.
SpecRetryFair == InitRetry /\ [][RetryNext]_vars /\ WF_vars(RetryNext)

\* One call of a client method against any answer of the bridge.
InitInvoke == SessionInit /\ RetryIdle /\ GenIdle /\ InvokeInit /\ TtsInit /\ QueryIdle
SpecInvoke == InitInvoke /\ [][InvokeNext]_vars

\* One generate_card call (a batch of one word) with any arguments on any
\* deck of up to MaxInitNotes notes.
InitGen ==
    /\ SessionInit /\ RetryIdle /\ InvokeIdle /\ TtsInit /\ QueryIdle
    /\ InitGenOver(Decks(MaxInitNotes), WordLists(1, 1), TagLists, BOOLEAN, BOOLEAN)
SpecGen == InitGen /\ [][GenNext]_vars

\* One generate_cards_batch call on up to MaxBatch words (any of them
\* repeated), without images.
InitBatch ==
    /\ SessionInit /\ RetryIdle /\ InvokeIdle /\ TtsInit /\ QueryIdle
    /\ InitGenOver(DecksOf(PlainNoteKinds, MaxInitNotes), WordLists(0, MaxBatch),
                   {<<"t1">>}, BOOLEAN, {FALSE})
SpecBatch == InitBatch /\ [][GenNext]_vars

\* Calls on one speech client from its construction on.
InitTts == SessionInit /\ RetryIdle /\ GenIdle /\ InvokeIdle /\ TtsInit /\ QueryIdle
SpecTts == InitTts /\ [][TtsNext]_vars

\* The query of the lookup built for any word.
InitQuery ==
    /\ SessionInit /\ RetryIdle /\ GenIdle /\ InvokeIdle /\ TtsInit
    /\ QueryInit
SpecQuery == InitQuery /\ [][QueryNext]_vars

Init ==
    /\ SessionInit /\ RetryInit /\ InvokeInit /\ TtsInit /\ QueryInit
    /\ InitGenOver(Decks(MaxInitNotes), WordLists(0, MaxBatch), TagLists, BOOLEAN, BOOLEAN)
Next == SessionNext \/ RetryNext \/ GenNext \/ InvokeNext \/ TtsNext \/ QueryNext
Spec == Init /\ [][Next]_vars

(***************************************************************************)
(* Properties of retry_middleware (checked under SpecRetry)                *)
(***************************************************************************)

\* The errors the specification calls transient: connection error (aiohttp's
\* ClientError), server disconnect, timeout.
TransientErrors == {"ClientError", "ServerDisconnectedError", "TimeoutError"}

IsTransient(e) == e.type = "error" /\ e.val \in TransientErrors

AllTransient(log) == \A i \in 1..Len(log) : IsTransient(log[i])

SameRequest == \A i \in 1..Len(handler_log) : handler_log[i].req = req

\* C5: a handler that fails with a transient error k times (k in 0..2) and
\* then succeeds is invoked exactly k+1 times, with exactly k backoff sleeps
\* of 1s then 2s, and the successful response is what retry_middleware
\* returns.
C5_RetryThenSuccess ==
    (/\ Len(handler_log) >= 1
     /\ Last(handler_log).type = "response"
     /\ AllTransient(SubSeq(handler_log, 1, Len(handler_log) - 1)))
    => LET k == Len(handler_log) - 1 IN
        /\ k \in 0..2
        /\ rpc = "returned"
        /\ SameRequest
        /\ sleeps = SubSeq(<<1, 2>>, 1, k)
        /\ r_result.type = "response"
        /\ r_result.val = handler_log[k + 1].val
        /\ r_result.n = k + 1

C5_Witness ==
    /\ rpc = "returned"
    /\ Len(handler_log) = 3
    /\ sleeps = <<1, 2>>

C7_NoRetryOnOtherErrors ==
    (/\ Len(handler_log) >= 1
     /\ Last(handler_log).type = "error"
     /\ Last(handler_log).val \notin TransientErrors)
    => /\ rpc = "raised"
       /\ r_result.type = "error"
       /\ r_result.val = Last(handler_log).val
       /\ r_result.n = Len(handler_log)
       /\ Len(sleeps) = Len(handler_log) - 1
       /\ (~IsTransient(handler_log[1]) => Len(handler_log) = 1 /\ sleeps = <<>>)

C7_Witness ==
    /\ rpc = "raised"
    /\ Len(handler_log) = 1
    /\ handler_log[1].val = "ValueError"
    /\ sleeps = <<>>

(***************************************************************************)
(* Properties of the session manager (checked under SpecSession)           *)
(***************************************************************************)

\* A get_session() call that returned a session.
IsGet(e) == e.op = "get_session" /\ e.raised = ""

\* Event k closes session s or is a close_session() call.
ClosesBetween(i, j, s) ==
    \E k \in (i + 1)..(j - 1) :
        \/ history[k].op = "close_session"
        \/ history[k].op = "session.close" /\ history[k].held = s

Live == {s \in 1..created : s \notin closed}

\* C8: two get_session() calls with no close of the session between them
\* (neither close_session() nor a direct close of the session object) return
\* the identical session object, and at most one session object is live.
C8_Singleton ==
    /\ \A i, j \in 1..Len(history) :
        (/\ i < j
         /\ IsGet(history[i])
         /\ IsGet(history[j])
         /\ ~ClosesBetween(i, j, history[i].ret))
        => history[j].ret = history[i].ret
    /\ Cardinality(Live) <= 1

C8_Witness ==
    /\ Len(history) >= 3
    /\ IsGet(history[1])
    /\ history[2].op = "get_session"
    /\ IsGet(history[3])
    /\ history[3].ret = history[1].ret

\* C9: a close_session() followed by get_session() returns a session object
\* different from the one held before the close, and it is not closed.
C9_NewAfterClose ==
    \A i \in 1..(Len(history) - 1) :
        (history[i].op = "close_session" /\ IsGet(history[i + 1]))
        => /\ history[i + 1].ret # history[i].held
           /\ history[i + 1].ret # None
           /\ ~history[i + 1].ret_closed
           /\ history[i + 1].ret \notin closed \/ i + 1 < Len(history)

C9_Witness ==
    /\ Len(history) = 3
    /\ IsGet(history[1])
    /\ history[2].op = "close_session"
    /\ IsGet(history[3])
    /\ history[3].ret # history[1].ret

\* C10: close_session() is idempotent: it raises nothing; with no session
\* held it leaves none held; right after an acquisition it leaves none held;
\* and called again in a row it leaves the module as the first call left it.
C10_CloseIdempotent ==
    \A i \in 1..Len(history) :
        history[i].op = "close_session"
        => /\ history[i].raised = ""
           /\ (history[i].held = None => history[i].after = None)
           /\ (i > 1 /\ IsGet(history[i - 1]) => history[i].after = None)
           /\ (i > 1 /\ history[i - 1].op = "close_session"
                => history[i].after = history[i - 1].after)
           /\ (i = Len(history) => _session = history[i].after)

C10_Witness ==
    /\ Len(history) = 4
    /\ IsGet(history[1])
    /\ history[2].op = "close_session"
    /\ history[3].op = "close_session"
    /\ history[4].op = "close_session"
    /\ _session = None


(***************************************************************************)
(* Properties of generate_card (checked under SpecGen)                     *)
(***************************************************************************)

\* The word text and the part of speech of the record under generation.
AnalysedWord == CardGet(card_data, "word", CurWord)
AnalysedForm == CardGet(card_data, "word_form", "")

\* The deck d holds a note of word w and form f.
HasMatching(d, w, f) ==
    \E i \in 1..Len(d) : d[i].word = w /\ d[i].form = f

IsCall(c, action) == c.svc = "bridge" /\ c.action = action
Issued(log, action) == \E i \in 1..Len(log) : IsCall(log[i], action)
BridgeCallsOk(log) == \A i \in 1..Len(log) : log[i].svc = "bridge" => log[i].ok

\* C1: when the deck holds no note of the analysed word and part of speech
\* (the lookup found none) and the write to the bridge succeeds, the write
\* is an addNote, generate_card returns (the id addNote returned, False),
\* and the run issues no updateNoteFields.
C1_CreateWhenNoNote ==
    [][(/\ gpc = "write"
        /\ existing_note_id = None \/ ~HasMatching(deck, AnalysedWord, AnalysedForm)
        /\ Last(calls').ok)
       => (/\ IsCall(Last(calls'), "addNote")
           /\ gpc' = "done"
           /\ ret' = Returned(Last(calls').val, FALSE)
           /\ ~Issued(calls', "updateNoteFields"))]_vars

\* A run on a deck that holds the word in another form added a note.
C1_Witness ==
    /\ gpc = "done"
    /\ existing_note_id = None
    /\ ~force_new
    /\ IsCall(Last(calls), "addNote") /\ Last(calls).ok
    /\ ret = Returned(Len(deck), FALSE)
    /\ Len(deck) = 2
    /\ deck[1].word = deck[2].word /\ deck[1].form # deck[2].form

\* C2: when the deck holds a note of the analysed word and part of speech,
\* force_new is false and every bridge call of the run succeeds, the lookup
\* found such a note, generate_card returns (its id, True), the write is an
\* updateNoteFields on that id, and the run issues no addNote.
C2_UpdateWhenNoteExists ==
    [][(/\ gpc = "write"
        /\ ~force_new
        /\ HasMatching(deck, AnalysedWord, AnalysedForm)
        /\ BridgeCallsOk(calls'))
       => (/\ existing_note_id \in 1..Len(deck)
           /\ deck[existing_note_id].word = AnalysedWord
           /\ deck[existing_note_id].form = AnalysedForm
           /\ gpc' = "done"
           /\ ret' = Returned(existing_note_id, TRUE)
           /\ IsCall(Last(calls'), "updateNoteFields")
           /\ Last(calls').arg.id = existing_note_id
           /\ ~Issued(calls', "addNote")
           /\ Len(deck') = Len(deck))]_vars

\* A run updated the note it found, every bridge call having succeeded.
C2_Witness ==
    /\ gpc = "done"
    /\ ~force_new
    /\ BridgeCallsOk(calls)
    /\ ret = Returned(1, TRUE)
    /\ IsCall(Last(calls), "updateNoteFields")
    /\ Last(calls).arg.id = 1
    /\ Len(deck) = 1

\* The part of a step of the update path that C3 is about: the value of
\* "User Notes" on the note before the write, the fetch of it and the
\* updateNoteFields call that follows.
UpdateStep == gpc = "write" /\ existing_note_id # None

EntryOf(o) ==
    IF o.raised THEN NoEntry
    ELSE [note_id |-> o.note_id, is_updated |-> o.is_updated]

\* The last position of word w in the list.
LastIndexOf(w) ==
    CHOOSE i \in 1..Len(words) :
        words[i] = w /\ \A j \in (i + 1)..Len(words) : words[j] # w

\* Every word of the list was processed, in input order.
AllProcessedInOrder ==
    /\ Len(outcomes) = Len(words)
    /\ \A i \in 1..Len(words) : outcomes[i].word = words[i]

\* C4 as stated: every position of the list has its entry in the result:
\* (None, False) for a call that failed, and what generate_card returned
\* for any other.
C4_AsStated ==
    gpc = "batch_done" =>
        /\ AllProcessedInOrder
        /\ \A i \in 1..Len(words) :
              /\ words[i] \in DOMAIN results
              /\ results[words[i]] = EntryOf(outcomes[i])

\* C4: the batch calls generate_card for every position of the list in
\* input order, whatever failed before, and returns one entry per distinct
\* word: that of the word's last occurrence, (None, False) if that call
\* failed and what generate_card returned otherwise.
C4_BatchIsolation ==
    gpc = "batch_done" =>
        /\ AllProcessedInOrder
        /\ DOMAIN results = {words[i] : i \in 1..Len(words)}
        /\ \A w \in DOMAIN results :
              results[w] = EntryOf(outcomes[LastIndexOf(w)])

\* The first word of two failed and the second, another word, was written.
C4_Witness ==
    /\ gpc = "batch_done"
    /\ Len(words) = 2
    /\ words[1] # words[2]
    /\ outcomes[1].raised /\ results[words[1]] = NoEntry
    /\ ~outcomes[2].raised /\ results[words[2]].note_id # None


(***************************************************************************)
(* More properties of the session manager (checked under SpecSession)      *)
(***************************************************************************)

\* The step is a call of close_session().
CloseSessionStep ==
    /\ Len(history') = Len(history) + 1
    /\ Last(history').op = "close_session"

\* C11 as stated: whatever the module held before (nothing, an open session
\* or a session already closed), it holds no session once close_session()
\* has returned.
C11_AsStated ==
    [][CloseSessionStep => _session' = None]_vars

\* C11: close_session() closes and clears an open session and leaves "no
\* session" as it is; a held session that was closed already stays referenced
\* by the module (tests/utils/test_httpcli.py:64-73), closed.
C11_CloseClearsOpenSession ==
    [][CloseSessionStep =>
        /\ (_session = None \/ _session \notin closed) => _session' = None
        /\ (_session # None /\ _session \in closed) => _session' = _session
        /\ _session # None => _session \in closed'
        /\ Last(history').raised = ""]_vars

\* close_session() has returned and the module still holds a closed session;
\* an earlier close_session() had cleared an open one.
C11_Witness ==
    /\ Len(history) >= 4
    /\ history[2].op = "close_session" /\ history[2].held # None
    /\ history[2].after = None
    /\ Last(history).op = "close_session"
    /\ _session # None /\ _session \in closed


(***************************************************************************)
(* More properties of generate_card (checked under SpecGen)                *)
(***************************************************************************)

\* The answers of the analysis that are empty or not a list.
EmptyOrNotList == {"null", "empty_list", "dict"}

BridgeCalls(log) == {i \in 1..Len(log) : log[i].svc = "bridge"}

\* C12: when the analysis returns an empty result or one that is not a list,
\* generate_card raises the invalid-analysis error (ValueError "Invalid AI
\* response"), the deck is as it was and the run has issued no bridge call
\* (no findNotes, storeMediaFile, addNote, updateNoteFields).
C12_InvalidAnalysisWritesNothing ==
    [][(gpc = "analyze" /\ gpc' # "analyze"
        /\ Last(calls').res \in EmptyOrNotList)
       => (/\ gpc' = "failed"
           /\ ret' = Raised("ValueError: Invalid AI response")
           /\ deck' = deck
           /\ BridgeCalls(calls') = {})]_vars

\* The analysis answered [] for a word whose note is in the deck, and the
\* call failed with the deck untouched.
C12_Witness ==
    /\ gpc = "failed"
    /\ Len(calls) = 1
    /\ calls[1].svc = "ai" /\ calls[1].res = "empty_list"
    /\ ret = Raised("ValueError: Invalid AI response")
    /\ Len(deck) = 1 /\ deck[1].word = CurWord


\* No two notes of the deck d have the same word and form.
UniquePairs(d) ==
    \A i, j \in 1..Len(d) :
        (d[i].word = d[j].word /\ d[i].form = d[j].form) => i = j

\* C13 as stated: without force_new, a deck with at most one note per
\* (word, form) pair has at most one note per pair after every step of
\* generate_card, whichever bridge calls failed.
C13_AsStated ==
    [][(~force_new /\ UniquePairs(deck)) => UniquePairs(deck')]_vars

\* The lookup failed and the word was added a second time in the same form.
C13_Witness ==
    /\ ~force_new
    /\ gpc = "done"
    /\ Len(deck) = 2
    /\ ~UniquePairs(deck)
    /\ \E i \in 1..Len(calls) : IsCall(calls[i], "findNotes") /\ ~calls[i].ok


\* The image files the bridge stored during the run, in the order stored:
\* one per candidate whose download and storeMediaFile both succeeded.
IsStoredImage(c) ==
    IsCall(c, "storeMediaFile") /\ c.arg[1] = "img" /\ c.ok
StoredImages(log) ==
    LET stored == SelectSeq(log, IsStoredImage)
    IN [i \in 1..Len(stored) |-> stored[i].arg[2]]

IsDownload(c) == c.svc = "image" /\ c.action = "download_image"
FailedImages(log) ==
    {i \in 1..Len(log) :
        \/ IsDownload(log[i]) /\ ~log[i].ok
        \/ IsCall(log[i], "storeMediaFile") /\ log[i].arg[1] = "img" /\ ~log[i].ok}

\* C14: with include_images, the image step never ends the generation, the
\* "Images" field holds one tag per candidate whose download and store both
\* succeeded, in candidate order (one tag when one of two candidates
\* failed), and that is the field the note is written with.
C14_ImageIsolation ==
    /\ (include_images /\ gpc = "write")
        => /\ fields["Images"] = StoredImages(calls)
           /\ ret = NoRet
    /\ (include_images /\ gpc = "done")
        => Last(calls).arg.fields["Images"] = StoredImages(calls)
    /\ (include_images /\ gpc \in {"write", "done"}
        /\ Cardinality({i \in 1..Len(calls) : IsDownload(calls[i])}) = 2
        /\ Cardinality(FailedImages(calls)) = 1)
        => Len(fields["Images"]) = 1

\* Of two candidates the first one's store failed, and the note was added
\* with the second image alone.
C14_Witness ==
    /\ include_images /\ gpc = "done"
    /\ Cardinality({i \in 1..Len(calls) : IsDownload(calls[i])}) = 2
    /\ \E i \in FailedImages(calls) : IsCall(calls[i], "storeMediaFile")
    /\ IsCall(Last(calls), "addNote")
    /\ Last(calls).arg.fields["Images"] = <<ImgName(2)>>


\* The synthesis or the media store of the word's audio in language lang
\* failed during the run.
AudioFailed(log, lang) ==
    \E i \in 1..Len(log) :
        \/ /\ log[i].svc = "tts" /\ log[i].arg = lang
           /\ log[i].text = "word" /\ ~log[i].ok
        \/ /\ IsCall(log[i], "storeMediaFile") /\ log[i].arg = <<"tts", lang>>
           /\ log[i].text = "word" /\ ~log[i].ok

AudioDone == gpc \in {"format", "images", "write"}

\* C15 as stated: when the audio of one variant fails and the other does
\* not, the generation goes on, the failing variant's field is empty and
\* the other variant's field is its sound tag.
C15_AsStated ==
    AudioDone =>
        /\ ret = NoRet
        /\ (AudioFailed(calls, "en-US") /\ ~AudioFailed(calls, "en-GB"))
            => us_audio = "" /\ uk_audio = SoundTag("en-GB")
        /\ (AudioFailed(calls, "en-GB") /\ ~AudioFailed(calls, "en-US"))
            => uk_audio = "" /\ us_audio = SoundTag("en-US")

\* The US synthesis failed, the UK synthesis did not, the note was added,
\* and its "UK Audio" field is empty.
C15_Witness ==
    /\ gpc = "done"
    /\ AudioFailed(calls, "en-US") /\ ~AudioFailed(calls, "en-GB")
    /\ IsCall(Last(calls), "addNote")
    /\ Last(calls).arg.fields["US Audio"] = ""
    /\ Last(calls).arg.fields["UK Audio"] = ""


\* The findNotes call of the lookup, or the notesInfo call that follows it,
\* raised.
LookupFailed(log) ==
    \E i \in 1..Len(log) :
        /\ IsCall(log[i], "findNotes")
        /\ \/ ~log[i].ok
           \/ i < Len(log) /\ IsCall(log[i + 1], "notesInfo") /\ ~log[i + 1].ok

\* C16: a lookup whose findNotes or notesInfo call raised does not end the
\* generation: no existing note is assumed, the steps after it run, the
\* write is an addNote, and the only errors the call can end with are those
\* of a later step: the formatting of the definitions or a failed add.
C16_DedupFailureNonFatal ==
    LookupFailed(calls) =>
        /\ existing_note_id = None
        /\ gpc \in {"audio", "format", "images", "write", "done", "failed"}
        /\ gpc \in {"audio", "format", "images", "write"} => ret = NoRet
        /\ ~Issued(calls, "updateNoteFields")
        /\ gpc = "done"
            => /\ IsCall(Last(calls), "addNote")
               /\ ret = Returned(Last(calls).val, FALSE)
        /\ gpc = "failed"
            => \/ ret = Raised(UnpackError)
               \/ IsCall(Last(calls), "addNote") /\ ret = WriteError("addNote")

\* findNotes found the word's note, notesInfo raised, and the word was added
\* as a new note.
C16_Witness ==
    /\ gpc = "done"
    /\ \E i \in 1..(Len(calls) - 1) :
        /\ IsCall(calls[i], "findNotes") /\ calls[i].ok
        /\ IsCall(calls[i + 1], "notesInfo") /\ ~calls[i + 1].ok
    /\ IsCall(Last(calls), "addNote")
    /\ ret = Returned(2, FALSE)


(***************************************************************************)
(* More properties of the lookup (checked under SpecBatch)                 *)
(***************************************************************************)

\* The notes of the deck that the query of the analysed word matches, and
\* those of them whose "Word Form" value is the analysed part of speech; the
\* bridge lists the notes oldest first.
QueryMatches == {i \in 1..Len(deck) : deck[i].word = AnalysedWord}
FormMatches == {i \in QueryMatches : WordFormOf(deck[i]) = AnalysedForm}
FirstFormMatch ==
    IF FormMatches = {} THEN None
    ELSE CHOOSE i \in FormMatches : \A j \in FormMatches : i <= j

LookupStep == gpc = "dedup" /\ gpc' = "audio" /\ ~force_new

\* C17 as stated: the lookup returns the first note, in the bridge's
\* order, whose "Word Form" value is the analysed part of speech, and none
\* exactly when the query matches no note or none of that form.
C17_AsStated ==
    [][LookupStep => existing_note_id' = FirstFormMatch]_vars

\* C17: the lookup returns the first note, in the bridge's order, whose
\* "Word Form" value (the empty string for a note without the field) is the
\* analysed part of speech; it returns none exactly when the query matches
\* no note, no matched note has that value, or findNotes or notesInfo
\* raised; it never ends the generation.
C17_FirstMatchingNote ==
    [][LookupStep =>
        /\ existing_note_id' =
              IF LookupFailed(calls') THEN None ELSE FirstFormMatch
        /\ ret' = NoRet]_vars

\* The lookup passed over an older note of the word in another form, or
\* without the field, and returned the second note.
C17_Witness ==
    /\ gpc = "audio"
    /\ existing_note_id = 2
    /\ deck[1].word = AnalysedWord
    /\ WordFormOf(deck[1]) # AnalysedForm
    /\ deck[2].word = AnalysedWord /\ deck[2].form = AnalysedForm


(***************************************************************************)
(* Properties of the AnkiConnect clients (checked under SpecInvoke)        *)
(***************************************************************************)

\* The bridge answered and the client has looked at the answer.
ResponseChecked ==
    /\ ipc \in {"returned", "raised"}
    /\ i_out.type \notin {"ClientError", "TimeoutError"}

\* C18 as stated: every client operation raises an error carrying the
\* bridge's message whenever the error field of the answer is not null, the
\* empty string included, and returns the result field only when it is null.
C18_AsStated ==
    ResponseChecked =>
        IF i_response.error # JsonNull
        THEN /\ ipc = "raised"
             /\ i_out.kind = "error" /\ i_out.val = i_response.error
        ELSE /\ ipc = "returned"
             /\ i_out = OutResult(i_response.result)

\* The generator's client returned the result of an answer whose error field
\* is the empty string.
C18_Witness ==
    /\ ipc = "returned"
    /\ i_client = "anki_smart_deck"
    /\ i_response.error = ""
    /\ i_out = OutResult(i_response.result)


(***************************************************************************)
(* Properties of the write step (checked under SpecGen)                    *)
(***************************************************************************)

\* C19: when the bridge's write raises, generate_card raises an error that
\* is raised from the bridge's and names the operation: the update for a
\* failed updateNoteFields, the add for a failed addNote; it returns no
\* (note_id, is_updated) pair and the deck is as it was.
C19_WriteErrorNamesOperation ==
    [][(gpc = "write" /\ ~Last(calls').ok)
       => (/\ gpc' = "failed"
           /\ ret'.kind = "error"
           /\ ret'.note_id = None
           /\ ret'.cause = BridgeFailure
           /\ IsCall(Last(calls'), "updateNoteFields")
                => ret'.error = "RuntimeError: Failed to update card in Anki"
           /\ IsCall(Last(calls'), "addNote")
                => ret'.error = "RuntimeError: Failed to add card to Anki"
           /\ IsCall(Last(calls'), "updateNoteFields")
                \/ IsCall(Last(calls'), "addNote")
           /\ deck' = deck)]_vars

\* A failed updateNoteFields ended the call with the error of the update.
C19_Witness ==
    /\ gpc = "failed"
    /\ IsCall(Last(calls), "updateNoteFields") /\ ~Last(calls).ok
    /\ ret.error = "RuntimeError: Failed to update card in Anki"
    /\ ret.cause = BridgeFailure


(***************************************************************************)
(* The order of the steps of generate_card (checked under SpecGen)         *)
(***************************************************************************)

Steps == {"analyze", "dedup", "audio", "format", "images", "write"}

\* The calls issued by the step being taken.
NewCalls == SubSeq(calls', Len(calls) + 1, Len(calls'))

IsSynthesis(c) == c.svc = "tts"
IsAudioCall(c, audio_type) ==
    /\ IsSynthesis(c) \/ (IsCall(c, "storeMediaFile") /\ c.arg[1] = "tts")
    /\ c.text = audio_type
IsImageCall(c) ==
    c.svc = "image" \/ (IsCall(c, "storeMediaFile") /\ c.arg[1] = "img")

\* The calls that belong to each step.
CallOfStep(c, step) ==
    CASE step = "analyze" -> c.svc = "ai"
      [] step = "dedup" -> IsCall(c, "findNotes") \/ IsCall(c, "notesInfo")
      [] step = "audio" -> IsAudioCall(c, "word")
      [] step = "format" -> IsAudioCall(c, "sentence")
      [] step = "images" -> IsImageCall(c)
      [] step = "write" -> \/ IsCall(c, "notesInfo")
                           \/ IsCall(c, "updateNoteFields")
                           \/ IsCall(c, "addNote")

\* A step is left for the next one, or the call ends: with an error out of
\* the analysis, the formatting or the write, with a result out of the write.
LeavesTo(next) ==
    \/ gpc' = next
    \/ gpc' = "failed" /\ gpc \in {"analyze", "format", "write"}
    \/ gpc' = "done" /\ gpc = "write"

ImageFriendlyCount(cd) ==
    LET defs == CardGet(cd, "definitions", <<>>)
    IN Cardinality({i \in 1..Len(defs) :
                        Len(defs[i]) = 3 /\ defs[i][1] = "true"})

ImageRequests(log) == {i \in 1..Len(log) : log[i].svc = "image"}

\* C21 as stated: the "Images" field of the note written has at most as many
\* image tags as the analysed record has image-friendly definitions, and a
\* record without an image-friendly definition causes no image request and
\* an empty "Images" field.
C21_AsStated ==
    gpc \in {"write", "done"} =>
        /\ Len(fields["Images"]) <= ImageFriendlyCount(card_data)
        /\ ImageFriendlyCount(card_data) = 0
            => ImageRequests(calls) = {} /\ fields["Images"] = <<>>

\* A note was added with two images for a record whose only definition is
\* not marked image-friendly.
C21_Witness ==
    /\ gpc = "done"
    /\ include_images
    /\ Len(CardGet(card_data, "definitions", <<>>)) = 1
    /\ ImageFriendlyCount(card_data) = 0
    /\ IsCall(Last(calls), "addNote")
    /\ Len(Last(calls).arg.fields["Images"]) = 2


(***************************************************************************)
(* Properties of the speech client (checked under SpecTts)                 *)
(***************************************************************************)

IsSynth(e, language_code) ==
    e.op = "synthesize" /\ e.language_code = language_code

ClearedBetween(i, j) ==
    \E k \in (i + 1)..(j - 1) : tts_log[k].op = "clear_cache"

\* The synthesize calls for a language whose voice-list query succeeded and
\* has not been cleared away since.
SuccessfulQueries(language_code) ==
    {i \in 1..Len(tts_log) :
        /\ IsSynth(tts_log[i], language_code)
        /\ tts_log[i].query_ok
        /\ ~ClearedBetween(i, Len(tts_log) + 1)}

\* C22: with no clear_cache in between, a synthesize call that follows a
\* call for the same language code whose voice-list query succeeded issues
\* no query and works on the list that query gave, the empty list included
\* (it then raises ValueError again); so at most one query per language code
\* succeeds, and the cache holds what it gave.
C22_VoiceListCachedOnce ==
    \A l \in LanguageCodes :
        /\ \A i, j \in 1..Len(tts_log) :
            (/\ i < j
             /\ IsSynth(tts_log[i], l) /\ tts_log[i].query_ok
             /\ IsSynth(tts_log[j], l)
             /\ ~ClearedBetween(i, j))
            => /\ ~tts_log[j].queried
               /\ tts_log[j].available = tts_log[i].available
               /\ tts_log[i].available = <<>> => tts_log[j].raised = "ValueError"
        /\ Cardinality(SuccessfulQueries(l)) <= 1
        /\ \A i \in SuccessfulQueries(l) :
            /\ l \in DOMAIN _wavenet_voices_cache
            /\ _wavenet_voices_cache[l] = tts_log[i].available

\* The first call's query gave no WaveNet voice, and two later calls for the
\* language worked on the cached empty list.
C22_Witness ==
    /\ Len(tts_log) = 3
    /\ \A i \in 1..3 : IsSynth(tts_log[i], "en-US")
    /\ tts_log[1].query_ok /\ tts_log[1].available = <<>>
    /\ ~tts_log[2].queried /\ ~tts_log[3].queried
    /\ tts_log[3].raised = "ValueError"


(***************************************************************************)
(* More properties of the AnkiConnect clients (checked under SpecInvoke)   *)
(***************************************************************************)

InvokeOver == ipc \in {"returned", "raised"}

\* C23 as stated: a call of a client operation, ended with a result or with
\* an error, has issued exactly one POST request.
C23_AsStated ==
    InvokeOver => i_posts = 1

\* C23: a call issues one POST request when that request is answered, and
\* another one only after a request that ended with an error of the
\* transport: the generator's client (anki_smart_deck) issues a second and
\* last request when the first ended with a client error, the ankinote
\* client one request per attempt of the retry middleware of its session,
\* three at most, and the client of _ankiconnect.py exactly one.
C23_PostsPerCall ==
    /\ i_posts = Len(i_log)
    /\ InvokeOver \/ ipc = "check" => i_posts >= 1
    /\ \A k \in 1..(Len(i_log) - 1) : i_log[k] # "response"
    /\ i_client = "anki_smart_deck"
        => /\ i_posts <= 2
           /\ i_posts = 2 => i_log[1] = "ClientError"
           /\ (InvokeOver /\ i_log[1] = "ClientError") => i_posts = 2
    /\ i_client = "ankinote"
        => /\ i_posts <= max_retries
           /\ \A k \in 1..(Len(i_log) - 1) : i_log[k] \in TransientErrors
    /\ i_client = "_ankiconnect" => i_posts <= 1

\* The generator's client posted twice: the first request ended with a
\* client error, the second was answered, and the call returned.
C23_Witness ==
    /\ ipc = "returned"
    /\ i_client = "anki_smart_deck"
    /\ i_log = <<"ClientError", "response">>
    /\ i_posts = 2


(***************************************************************************)
(* Properties of the search query (checked under SpecQuery)                *)
(***************************************************************************)

\* The part of the query before the word, and the word's part of it: what
\* stands between "Word:" and the last character.
QueryPrefix == <<"deck:", Quote, deck_name, Quote, " ", Quote, "Word", ":">>
QueryTerm == SubSeq(q_query, Len(QueryPrefix) + 1, Len(q_query) - 1)

\* The number of double quotes among the first i characters of w, and the
\* place of the i-th character of w in the escaped word.
QuotesUpTo(w, i) == Cardinality({k \in 1..i : w[k] = Quote})
PlaceOf(w, i) == i + QuotesUpTo(w, i)

\* Where a reader of the search syntax, for whom a backslash takes the
\* next character literally, finds the end of a quoted term that starts at
\* s[i]: the place of the first quote that is not escaped, 0 for none.
RECURSIVE TermEnd(_, _)
TermEnd(s, i) ==
    IF i > Len(s) THEN 0
    ELSE IF s[i] = Backslash THEN TermEnd(s, i + 2)
    ELSE IF s[i] = Quote THEN i
    ELSE TermEnd(s, i + 1)

\* C24 as stated: the query is deck:"<deck>" "Word:<escaped word>"; every
\* character of the word is copied in order, a double quote with one
\* backslash added before it and nothing else added; and the quoted term
\* ends at the closing quote the builder added and nowhere before.
C24_AsStated ==
    qpc = "built" =>
        /\ SubSeq(q_query, 1, Len(QueryPrefix)) = QueryPrefix
        /\ Last(q_query) = Quote
        /\ Len(QueryTerm) = Len(q_word) + QuotesUpTo(q_word, Len(q_word))
        /\ \A i \in 1..Len(q_word) :
              /\ QueryTerm[PlaceOf(q_word, i)] = q_word[i]
              /\ q_word[i] = Quote
                    => QueryTerm[PlaceOf(q_word, i) - 1] = Backslash
        /\ TermEnd(QueryTerm \o <<Quote>>, 1) = Len(QueryTerm) + 1

\* The word is a backslash and a double quote: the backslash added before
\* the quote is taken literally after the word's own backslash, and the
\* word's quote ends the term.
C24_Witness ==
    /\ qpc = "built"
    /\ q_word = <<Backslash, Quote>>
    /\ QueryTerm = <<Backslash, Backslash, Quote>>
    /\ TermEnd(QueryTerm \o <<Quote>>, 1) = 3


(***************************************************************************)
(* Properties of force_new (checked under SpecGen)                         *)
(***************************************************************************)

\* C25: with force_new the lookup is skipped: the run issues no findNotes,
\* no notesInfo and no updateNoteFields, no existing note is assumed, the
\* write is an addNote, and when it succeeds generate_card returns the new
\* note's id with is_updated = False, also when the deck holds a note of the
\* analysed word and part of speech.
C25_ForceNewCreates ==
    force_new =>
        /\ existing_note_id = None
        /\ ~Issued(calls, "findNotes")
        /\ ~Issued(calls, "notesInfo")
        /\ ~Issued(calls, "updateNoteFields")
        /\ gpc = "done"
            => /\ IsCall(Last(calls), "addNote")
               /\ ret = Returned(Last(calls).val, FALSE)
               /\ ret.note_id = Len(deck)
        /\ (gpc = "failed" /\ Issued(calls, "addNote"))
            => ret = WriteError("addNote")

\* With force_new a second note of the word and form was added to a deck
\* that held one.
C25_Witness ==
    /\ force_new
    /\ gpc = "done"
    /\ Len(deck) = 2
    /\ deck[1].word = deck[2].word /\ deck[1].form = deck[2].form
    /\ ret = Returned(2, FALSE)
    /\ IsCall(Last(calls), "addNote")


(***************************************************************************)
(* Closed sessions (checked under SpecSession)                             *)
(***************************************************************************)

\* C26: close_session() called while the module holds a session that was
\* closed directly (session.close(), not close_session()) raises nothing and
\* changes nothing: the module references the same session object, still
\* closed, and no session is closed or created by the call.
C26_CloseOfClosedIsNoOp ==
    [][(CloseSessionStep /\ _session # None /\ _session \in closed)
       => (/\ Last(history').raised = ""
           /\ Last(history').held = _session
           /\ Last(history').after = _session
           /\ _session' = _session
           /\ _session' # None
           /\ closed' = closed
           /\ created' = created)]_vars

\* The session acquired was closed directly, and close_session() left the
\* module referencing it.
C26_Witness ==
    /\ Len(history) = 3
    /\ IsGet(history[1])
    /\ history[2].op = "session.close" /\ history[2].held = history[1].ret
    /\ history[3].op = "close_session"
    /\ history[3].raised = ""
    /\ _session = history[1].ret
    /\ _session \in closed

\* The step is a get_session() call that returned a session.
GetSessionStep ==
    /\ Len(history') = Len(history) + 1
    /\ IsGet(Last(history'))

\* C27: whatever calls came before, the session get_session() returns is
\* not closed when it is returned and is the one the module then holds; a
\* held session found closed is not returned: a new session object takes
\* its place.
C27_ReturnedSessionIsOpen ==
    [][GetSessionStep =>
        LET got == Last(history').ret
        IN /\ got # None
           /\ got \notin closed'
           /\ ~Last(history').ret_closed
           /\ _session' = got
           /\ (_session # None /\ _session \in closed)
                => /\ got # _session
                   /\ got \notin 1..created
                   /\ created' = created + 1]_vars

\* A session closed directly, after close_session() had left it referenced,
\* was replaced by a new one at the next get_session().
C27_Witness ==
    /\ Len(history) = 4
    /\ IsGet(history[1])
    /\ history[2].op = "session.close" /\ history[2].held = history[1].ret
    /\ history[3].op = "close_session"
    /\ IsGet(history[4])
    /\ history[4].held = history[1].ret
    /\ history[4].ret # history[1].ret
    /\ history[4].ret \notin closed


(***************************************************************************)
(* The one write of a run (checked under SpecGen)                          *)
(***************************************************************************)

IsNoteWrite(c) == IsCall(c, "addNote") \/ IsCall(c, "updateNoteFields")
NoteWrites(log) == {i \in 1..Len(log) : IsNoteWrite(log[i])}

RetryOver == rpc \in {"returned", "raised"}

\* C29: whatever the handler does at each invocation (a response, a
\* transient error, another error), retry_middleware invokes it at most 3
\* times and ends by returning a response or raising; the "assert False"
\* after the loop is never reached.
C29_RetryTerminates ==
    [](/\ Len(handler_log) <= 3
       /\ rpc # "assert_false"
       /\ RetryOver => r_result.type \in {"response", "error"})
    /\ <>RetryOver

\* Two transient errors, then an error of another kind at the third
\* invocation, which was raised.
C29_Witness ==
    /\ rpc = "raised"
    /\ Len(handler_log) = 3
    /\ IsTransient(handler_log[1]) /\ IsTransient(handler_log[2])
    /\ handler_log[3].type = "error" /\ ~IsTransient(handler_log[3])
    /\ sleeps = <<1, 2>>


(***************************************************************************)
(* The tags of a batch (checked under SpecBatch)                           *)
(***************************************************************************)

\* The tags a note created for the record under generation is to carry: the
\* caller's, then "ai-generated", then the record's frequency if it has one.
ExpectedTags ==
    tags \o <<"ai-generated">>
    \o (IF CardGet(card_data, "frequency", "") # ""
        THEN <<CardGet(card_data, "frequency", "")>> ELSE <<>>)

\* C30: no step of generate_card changes the caller's tag list; a note
\* created for a word of the batch carries exactly the caller's tags, then
\* "ai-generated", then the record's frequency when it has one, whatever
\* words came before; an update sends the note's id and fields and no tags,
\* and no write changes the tags of a note the deck already held.
C30_CallerTagsUntouched ==
    [][/\ tags' = tags
       /\ (gpc = "write" /\ existing_note_id = None)
            => /\ IsCall(Last(calls'), "addNote")
               /\ Last(calls').arg.tags = ExpectedTags
               /\ gpc' = "done"
                    => /\ Len(deck') = Len(deck) + 1
                       /\ Last(deck').tags = ExpectedTags
       /\ (gpc = "write" /\ existing_note_id # None)
            => /\ IsCall(Last(calls'), "updateNoteFields")
               /\ DOMAIN Last(calls').arg = {"id", "fields"}
               /\ "Tags" \notin DOMAIN Last(calls').arg.fields
               /\ Len(deck') = Len(deck)
       /\ \A i \in 1..Len(deck) : deck'[i].tags = deck[i].tags]_vars

\* Two words were added one after the other with the same caller's list:
\* the second note carries the caller's tag and "ai-generated" and nothing
\* of the first note's tags, and the caller's list is what it was.
C30_Witness ==
    /\ gpc = "done" /\ idx = 2
    /\ tags = <<"t1">>
    /\ Len(deck) = 2
    /\ deck[1].tags = <<"t1", "ai-generated", "B2">>
    /\ deck[2].tags = <<"t1", "ai-generated">>
    /\ IsCall(Last(calls), "addNote")

====
